---- MODULE Spec2Model ----
(***************************************************************************)
(* Model of the Hex colour validator: VSCodeSchema (schema resolution and  *)
(* the static loader), Validator (validation of a user colour mapping      *)
(* against the resolved schema map) and HexPanel (file selection, loading, *)
(* the caches per file, debounced revalidation and the scaffold).          *)
(*                                                                         *)
(* JavaScript strings that the code inspects character by character (the   *)
(* colour values) are tuples of one-character strings.  Strings the code   *)
(* only copies or tests for emptiness (messages, descriptions, keys) are   *)
(* TLA+ strings.  Objects are functions from field names to values.        *)
(***************************************************************************)
EXTENDS Integers, Sequences, FiniteSets, TLC

VARIABLES
  rawDoc,        \* the parsed schema document handed to the constructor
  instance,      \* outcome of new VSCodeSchema(data): none / ok / error
  schema,        \* VSCodeSchema.#schema of the constructed instance
  refCache,      \* VSCodeSchema.#defs of the constructed instance
  userColors,    \* the user colour mapping: own entries in insertion order
  outcome,       \* outcome of the latest Validator.validate call
  prevOutcome,   \* outcome of the call before it on the same inputs
  checks,        \* what each #validateColorProperty call of the latest validate returned
  schemaAtBuild, \* the schema map as the constructor left it
  lastIndex,     \* Validator.#colourHex.lastIndex (state of the static RegExp)
  candidate,     \* a string handed to the format check
  verdict,       \* what the format check said about it
  runs,          \* what each new VSCodeSchema(data) so far gave: a map or an error
  themeFile,     \* the selected theme file on disk: readable or not, and its colors
  changeEvents,  \* file-change events the watcher has not delivered yet
  timers,        \* the setTimeout handles that are pending
  updateTimeout, \* HexPanel.#updateTimeout: a handle, or 0 for null
  handles,       \* the number of setTimeout handles handed out
  updates,       \* the #updateData calls in flight, each with what its load read
  cachedColors,  \* HexPanel.#userColors entry of the selected file
  validations,   \* HexPanel.#validations entry of the selected file
  current,       \* HexPanel.#current: the results message posted last
  staticInstance, \* VSCodeSchema.#instance: the place in runs of the instance, 0 for null
  newCalls,      \* the position of each caller of VSCodeSchema.new()
  returned,      \* what the completed calls of VSCodeSchema.new() gave, in order
  disk,          \* the theme files on disk: present or not, content, modification time
  selectedFile,  \* HexPanel.#selectedFile: a path, or "none" for null
  watcher,       \* the path HexPanel.#selectedFileWatcher watches, or "none"
  userColorsMap, \* HexPanel.#userColors: the colors cached per path
  validationsMap, \* HexPanel.#validations: the results cached per path
  timestamps,    \* HexPanel.#timestamps: the modification time cached per path
  inflight,      \* the #selectFile and #updateData calls that wait for a promise
  begun,         \* how many of them were begun, saves and deletions counted apart
  posted,        \* the message #updateData posted last, with the colors it counted
  lastLoad       \* how the #loadThemeContent call that completed last ended

\* the state of the panel
panelVars == <<themeFile, changeEvents, timers, updateTimeout, handles, updates,
               cachedColors, validations, current>>

\* the state of the schema and of the validator
coreVars == <<rawDoc, instance, schema, refCache, userColors, outcome, prevOutcome,
              checks, schemaAtBuild, lastIndex, candidate, verdict, runs>>

\* the state of the static loader VSCodeSchema.new
loaderVars == <<staticInstance, newCalls, returned>>

\* the state of the panel's files and of its caches per file
fileVars == <<disk, selectedFile, watcher, userColorsMap, validationsMap, timestamps,
              inflight, begun, posted, lastLoad>>

vars == <<coreVars, panelVars, loaderVars, fileVars>>

----------------------------------------------------------------------------
(* Bounds of the model *)

MaxProps == 2
MaxColors == 2
MaxStrLen == 10
MaxNonHex == 2
MaxChanges == 3
MaxCalls == 3
MaxUpdates == 3
MaxSaves == 1
MaxDeletions == 1

----------------------------------------------------------------------------
(* Objects *)

Has(o, f) == f \in DOMAIN o

EmptyObject == [x \in {} |-> x]

\* delete o[f]
Delete(o, f) == [x \in DOMAIN o \ {f} |-> o[x]]

\* Object.assign(target, source): the source's own fields win
ObjectAssign(target, source) ==
  [x \in DOMAIN target \cup DOMAIN source |->
     IF x \in DOMAIN source THEN source[x] ELSE target[x]]

\* o[f] = v
Put(o, f, v) == [x \in DOMAIN o \cup {f} |-> IF x = f THEN v ELSE o[x]]

\* const x = e, then F(x): e is evaluated once
With(e, F(_)) == CHOOSE y \in {F(x) : x \in {e}} : TRUE

\* truthiness of a string-valued field: present and not the empty string
TruthyStr(o, f) == Has(o, f) /\ o[f] # ""

\* truthiness of a field holding a tokenised string (the $ref)
TruthySeq(o, f) == Has(o, f) /\ o[f] # <<>>

----------------------------------------------------------------------------
(* Strings and regular expressions *)

Str(s) == [t |-> "string", s |-> s]
NonString(kind) == [t |-> kind, s |-> <<>>]

HexDigit ==
  {"0", "1", "2", "3", "4", "5", "6", "7", "8", "9",
   "a", "b", "c", "d", "e", "f", "A", "B", "C", "D", "E", "F"}

DefaultLiteral == <<"d", "e", "f", "a", "u", "l", "t">>

\* [a-fA-F0-9]{n} matched at position from: the position after it, or 0
HexRun(s, from, n) ==
  IF from + n - 1 <= Len(s) /\ \A i \in from .. (from + n - 1) : s[i] \in HexDigit
  THEN from + n ELSE 0

\* X(?:Y)?$ where X ends before position p and Y is a run of n hex digits:
\* the optional group is tried first, then skipped
OptionalRunThenEnd(s, p, n) ==
  \/ (HexRun(s, p, n) # 0 /\ HexRun(s, p, n) = Len(s) + 1)
  \/ p = Len(s) + 1

\* the same expression written without the closing $
colourHexMatchUnanchored(s) ==
  /\ Len(s) >= 1
  /\ s[1] = "#"
  /\ (HexRun(s, 2, 6) # 0 \/ HexRun(s, 2, 3) # 0)

\* /^#(?:[a-fA-F0-9]{6}(?:[a-fA-F0-9]{2})?|[a-fA-F0-9]{3}(?:[a-fA-F0-9]{1})?)$/
\* matched against s from position 1
colourHexMatch(s) ==
  /\ Len(s) >= 1
  /\ s[1] = "#"
  /\ \/ (HexRun(s, 2, 6) # 0 /\ OptionalRunThenEnd(s, HexRun(s, 2, 6), 2))
     \/ (HexRun(s, 2, 3) # 0 /\ OptionalRunThenEnd(s, HexRun(s, 2, 3), 1))

\* #colourHex written with the g flag
colourHexGlobalFlagSet == TRUE

\* the literal of #colourHex carries no flags: neither global nor sticky
colourHexGlobal == FALSE

\* RegExp.prototype.test on #colourHex with the regexp's lastIndex li.
\* Without the global flag lastIndex is neither read nor written.  With it
\* the match starts at lastIndex (the pattern is anchored, so only a start at
\* 0 can match), a match moves lastIndex to its end and a failure resets it.
colourHexTest(s, li) ==
  IF colourHexGlobal
  THEN IF li = 0 /\ colourHexMatch(s)
       THEN [matched |-> TRUE, lastIndex |-> Len(s)]
       ELSE [matched |-> FALSE, lastIndex |-> 0]
  ELSE [matched |-> colourHexMatch(s), lastIndex |-> li]

\* Pattern sources found in oneOf alternatives
PatAlpha8 == "^#[0-9a-fA-F]{8}$"
PatHex6 == "^#[0-9a-fA-F]{6}$"
PatHex6or8 == "^#(?:[0-9a-fA-F]{6}|[0-9a-fA-F]{8})$"
PatMalformed == "^#(?:[0-9a-fA-F]{8}$"

\* new RegExp(source) throws a SyntaxError on an unterminated group
RegExpCompiles(source) == source # PatMalformed

AllHexFrom2(s, n) == Len(s) = n + 1 /\ s[1] = "#" /\ HexRun(s, 2, n) # 0

\* new RegExp(source).test(s) for a source that compiles
RegExpTest(source, s) ==
  CASE source = PatAlpha8 -> AllHexFrom2(s, 8)
    [] source = PatHex6 -> AllHexFrom2(s, 6)
    [] source = PatHex6or8 -> AllHexFrom2(s, 6) \/ AllHexFrom2(s, 8)
    [] OTHER -> FALSE

----------------------------------------------------------------------------
(* Validator *)

TypeError == "Color values must be strings"
FormatError == "Invalid color format. Use #RGB, #RGBA, #RRGGBB or #RRGGBBAA."
TransparencyError == "This color must be transparent to avoid obscuring content."
NoDescription == "No description available"

\* The message of a result entry is the tuple of the parts it is put together
\* from: a fixed or configured text is one part
Text(s) == <<s>>

\* the template literal `Property ${key} is not allowed.`
NotAllowed(key) == <<"Property ", key, " is not allowed.">>

\* the loop written without the return: the last failing alternative wins
RECURSIVE checkOptionsNoReturn(_, _, _)
checkOptionsNoReturn(oneOf, i, s) ==
  IF i > Len(oneOf) THEN [threw |-> FALSE, isValid |-> TRUE]
  ELSE LET option == oneOf[i]
           rest == checkOptionsNoReturn(oneOf, i + 1, s)
       IN
    IF TruthyStr(option, "pattern") /\ TruthyStr(option, "patternErrorMessage")
    THEN IF ~RegExpCompiles(option.pattern)
         THEN [threw |-> TRUE, error |-> "SyntaxError"]
         ELSE IF ~RegExpTest(option.pattern, s) /\ ~rest.threw /\ rest.isValid
              THEN [threw |-> FALSE, isValid |-> FALSE,
                    error |-> option.patternErrorMessage]
              ELSE rest
    ELSE rest

\* the for..of loop over propertySchema.oneOf, from alternative i on
RECURSIVE checkOptions(_, _, _)
checkOptions(oneOf, i, s) ==
  IF i > Len(oneOf) THEN [threw |-> FALSE, isValid |-> TRUE]
  ELSE LET option == oneOf[i] IN
    IF TruthyStr(option, "pattern") /\ TruthyStr(option, "patternErrorMessage")
    THEN IF ~RegExpCompiles(option.pattern)
         THEN [threw |-> TRUE, error |-> "SyntaxError"]
         ELSE IF ~RegExpTest(option.pattern, s)
              THEN [threw |-> FALSE, isValid |-> FALSE,
                    error |-> IF Has(option, "patternErrorMessage")
                              THEN option.patternErrorMessage
                              ELSE TransparencyError]
              ELSE checkOptions(oneOf, i + 1, s)
    ELSE checkOptions(oneOf, i + 1, s)

\* Validator.#validateColorProperty; li is #colourHex.lastIndex on entry
validateColorProperty(value, propertySchema, li) ==
  IF value.t # "string"
  THEN [threw |-> FALSE, isValid |-> FALSE, error |-> TypeError, lastIndex |-> li]
  ELSE
    LET isDefault == value.s = DefaultLiteral
        t == colourHexTest(value.s, li)
        liAfter == IF isDefault THEN li ELSE t.lastIndex
    IN IF ~(isDefault \/ t.matched)
       THEN [threw |-> FALSE, isValid |-> FALSE, error |-> FormatError,
             lastIndex |-> liAfter]
       ELSE IF Has(propertySchema, "oneOf")
            THEN checkOptions(propertySchema.oneOf, 1, value.s) @@
                 [lastIndex |-> liAfter]
            ELSE [threw |-> FALSE, isValid |-> TRUE, lastIndex |-> liAfter]

\* the array index a property key denotes, or -1: such keys come first, in
\* ascending order, when the own keys of an object are enumerated
ArrayIndex(key) == CASE key = "7" -> 7 [] key = "10" -> 10 [] OTHER -> -1

RECURSIVE AscendingIndexEntries(_)
AscendingIndexEntries(entries) ==
  IF entries = <<>> THEN <<>>
  ELSE LET m == CHOOSE i \in 1 .. Len(entries) :
                  \A j \in 1 .. Len(entries) :
                    ArrayIndex(entries[i].key) <= ArrayIndex(entries[j].key)
       IN <<entries[m]>> \o
          AscendingIndexEntries(
            SubSeq(entries, 1, m - 1) \o SubSeq(entries, m + 1, Len(entries)))

IsIndexEntry(e) == ArrayIndex(e.key) >= 0
IsNamedEntry(e) == ArrayIndex(e.key) < 0

\* Object.entries(obj) of an object whose own entries were inserted in the
\* order of the sequence obj
ObjectEntries(obj) ==
  AscendingIndexEntries(SelectSeq(obj, IsIndexEntry)) \o SelectSeq(obj, IsNamedEntry)

\* a description without the fallback
describeWithoutFallback(propertySchema) ==
  IF Has(propertySchema, "description") THEN propertySchema.description ELSE ""

\* propertySchema.description || "No description available"
describe(propertySchema) ==
  IF TruthyStr(propertySchema, "description") THEN propertySchema.description
  ELSE NoDescription

\* results.push({...}) for a key of the schema map, given what
\* #validateColorProperty returned or threw
knownEntry(propertySchema, key, value, validationResult) ==
  LET isDeprecated == TruthyStr(propertySchema, "deprecationMessage")
      base == [property |-> key,
               status |-> IF isDeprecated THEN "warn"
                          ELSE IF validationResult.isValid THEN "valid"
                          ELSE "invalid",
               description |-> describe(propertySchema),
               value |-> value]
      call == [key |-> key, value |-> value,
               result |-> Delete(validationResult, "lastIndex")]
  IN IF validationResult.threw
     THEN [threw |-> TRUE, error |-> validationResult.error,
           lastIndex |-> validationResult.lastIndex, calls |-> <<call>>]
     ELSE [threw |-> FALSE,
           lastIndex |-> validationResult.lastIndex,
           calls |-> <<call>>,
           entry |-> IF isDeprecated
                     THEN base @@ [message |-> Text(propertySchema.deprecationMessage)]
                     ELSE IF validationResult.isValid THEN base
                     ELSE base @@ [message |-> Text(validationResult.error)]]

\* a loop body that warns about a key the schema map lacks
validateEntryWarnsUnknown(schemaMap, key, value, li) ==
  IF key \in DOMAIN schemaMap
  THEN With(validateColorProperty(value, schemaMap[key], li),
            LAMBDA validationResult :
              knownEntry(schemaMap[key], key, value, validationResult))
  ELSE [threw |-> FALSE, lastIndex |-> li, calls |-> <<>>,
        entry |-> [property |-> key, status |-> "warn", description |-> "",
                   value |-> value, message |-> NotAllowed(key)]]

\* the body of the for..of loop of validate for one [key, value]: the entry
\* pushed, or the error thrown; calls holds what #validateColorProperty
\* returned when the body called it
validateEntry(schemaMap, key, value, li) ==
  IF key \in DOMAIN schemaMap
  THEN With(validateColorProperty(value, schemaMap[key], li),
            LAMBDA validationResult :
              knownEntry(schemaMap[key], key, value, validationResult))
  ELSE [threw |-> FALSE, lastIndex |-> li, calls |-> <<>>,
        entry |-> [property |-> key, status |-> "invalid", description |-> "",
                   value |-> value, message |-> NotAllowed(key)]]

RECURSIVE validateLoop(_, _, _, _, _, _)
validateLoop(schemaMap, entries, i, results, li, calls) ==
  IF i > Len(entries)
  THEN [kind |-> "returned", results |-> results, lastIndex |-> li, calls |-> calls]
  ELSE With(validateEntry(schemaMap, entries[i].key, entries[i].value, li),
            LAMBDA r :
              IF r.threw
              THEN [kind |-> "thrown", error |-> r.error, lastIndex |-> r.lastIndex,
                    calls |-> calls \o r.calls]
              ELSE With([results |-> Append(results, r.entry),
                         calls |-> calls \o r.calls],
                        LAMBDA acc :
                          validateLoop(schemaMap, entries, i + 1, acc.results,
                                       r.lastIndex, acc.calls)))

\* Validator.validate(schema, userColors); an entry whose message is
\* undefined is an entry without a message field
validate(schemaMap, colors, li) ==
  With(ObjectEntries(colors),
       LAMBDA entries : validateLoop(schemaMap, entries, 1, <<>>, li, <<>>))

----------------------------------------------------------------------------
(* VSCodeSchema *)

\* A $ref is the sequence of the tokens of its text: "#/$defs/d1" is
\* <<"#", "/", "$", "defs", "/", "d1">>.  Word holds the tokens that \w+ matches.
Word == {"defs", "colors", "d1", "d2", "d3", "constructor"}

\* refPattern.exec(ref)?.groups ?? {} for /^#\/\$(?<cat>\w+)\/(?<def>.*)$/
refPatternExec(ref) ==
  IF /\ Len(ref) \in {5, 6}
     /\ ref[1] = "#" /\ ref[2] = "/" /\ ref[3] = "$"
     /\ ref[4] \in Word
     /\ ref[5] = "/"
  THEN [cat |-> ref[4], def |-> IF Len(ref) = 6 THEN ref[6] ELSE ""]
  ELSE [cat |-> "", def |-> ""]

\* the names every plain object inherits from Object.prototype
ObjectPrototypeKeys == {"constructor"}

\* defs[def]: an own definition, an inherited member (a function, which has
\* no own enumerable field), or undefined
DefLookup(defs, def) ==
  IF def \in DOMAIN defs THEN [found |-> TRUE, value |-> defs[def]]
  ELSE IF def \in ObjectPrototypeKeys THEN [found |-> TRUE, value |-> EmptyObject]
  ELSE [found |-> FALSE, value |-> EmptyObject]

resolveReference(ref, defs) ==
  LET g == refPatternExec(ref) IN
    IF g.cat = "" \/ g.def = ""
    THEN [threw |-> TRUE, error |-> "Invalid reference/definition pair"]
    ELSE IF ~DefLookup(defs, g.def).found
         THEN [threw |-> TRUE, error |-> "No definition"]
         ELSE [threw |-> FALSE, cat |-> g.cat, def |-> g.def,
               value |-> DefLookup(defs, g.def).value]

\* a cache that records one definition per category only
recordDefinitionOncePerCategory(cache, r) ==
  IF \E key \in DOMAIN cache : key[1] = r.cat THEN cache
  ELSE Put(cache, <<r.cat, r.def>>, r.value)

\* recordDefinition: #defs is a map from <<cat, def>> to the recorded value
recordDefinition(cache, r) ==
  IF <<r.cat, r.def>> \in DOMAIN cache THEN cache
  ELSE Put(cache, <<r.cat, r.def>>, r.value)

\* An array of alternatives lives either in the property node that declares
\* it ("own") or in the definition it was declared in.  Object.assign copies
\* the reference, so every node that merged definition D shares D's array,
\* held in heap[D]; the elements are resolved in place.
OwnArray(alts) == [at |-> "own", alts |-> alts]
SharedArray(d) == [at |-> d, alts |-> <<>>]

ArrayOf(heap, work) ==
  IF work.oneOf.at = "own" THEN work.oneOf.alts ELSE heap[work.oneOf.at]

\* el => {...} for an element that carries a $ref: the element is rewritten
\* in place
resolveElement(alts, i, defs, cache) ==
  With(resolveReference(alts[i]["$ref"], defs),
       LAMBDA r :
         IF r.threw THEN [threw |-> TRUE, error |-> r.error]
         ELSE [threw |-> FALSE,
               alts |-> [alts EXCEPT
                           ![i] = ObjectAssign(Delete(alts[i], "$ref"), r.value)],
               cache |-> recordDefinition(cache, r)])

\* oneOf.forEach(el => ...) from element i on
RECURSIVE resolveAlternatives(_, _, _, _)
resolveAlternatives(alts, i, defs, cache) ==
  IF i > Len(alts) THEN [threw |-> FALSE, alts |-> alts, cache |-> cache]
  ELSE IF TruthySeq(alts[i], "$ref")
       THEN With(resolveElement(alts, i, defs, cache),
                 LAMBDA e :
                   IF e.threw THEN e
                   ELSE resolveAlternatives(e.alts, i + 1, defs, e.cache))
       ELSE resolveAlternatives(alts, i + 1, defs, cache)

\* for(const el of oneOf) if(el.deprecationMessage) {...; break}
RECURSIVE firstDeprecation(_, _)
firstDeprecation(alts, i) ==
  IF i > Len(alts) THEN ""
  ELSE IF TruthyStr(alts[i], "deprecationMessage") THEN alts[i].deprecationMessage
  ELSE firstDeprecation(alts, i + 1)

Probe6 == <<"#", "f", "f", "f", "f", "f", "f">>
Probe8 == <<"#", "f", "f", "f", "f", "f", "f", "a", "a">>

\* a derivation whose loop ends at the first pattern that does not compile
AllowsUntilMalformed(alts, probe) ==
  \E i \in 1 .. Len(alts) :
    /\ \A j \in 1 .. i :
         TruthyStr(alts[j], "pattern") => RegExpCompiles(alts[j].pattern)
    /\ TruthyStr(alts[i], "pattern")
    /\ RegExpTest(alts[i].pattern, probe)

\* does some alternative with a pattern that compiles accept the probe
Allows(alts, probe) ==
  \E i \in 1 .. Len(alts) :
    /\ TruthyStr(alts[i], "pattern")
    /\ RegExpCompiles(alts[i].pattern)
    /\ RegExpTest(alts[i].pattern, probe)

\* a derivation that always writes the default sample
deriveAlphaOverwritesSample(work, alts, isArray) ==
  LET alphaRequired == IF isArray
                       THEN Allows(alts, Probe8) /\ ~Allows(alts, Probe6)
                       ELSE FALSE
  IN Put(Put(work, "alphaRequired", alphaRequired),
         "sample", IF alphaRequired THEN Probe8 ELSE Probe6)

\* the derivation of alphaRequired and sample
deriveAlpha(work, alts, isArray) ==
  LET alphaRequired == IF isArray
                       THEN Allows(alts, Probe8) /\ ~Allows(alts, Probe6)
                       ELSE FALSE
      w == Put(work, "alphaRequired", alphaRequired)
  IN IF Has(w, "sample") THEN w
     ELSE Put(w, "sample", IF alphaRequired THEN Probe8 ELSE Probe6)

\* a resolver that leaves deprecated properties out of the map
schemaSetUnlessDeprecated(schemaMap, k, work) ==
  IF TruthyStr(work, "deprecationMessage") THEN schemaMap ELSE Put(schemaMap, k, work)

\* schema.set(k, work)
schemaSet(schemaMap, k, work) == Put(schemaMap, k, work)

\* the second half of the loop body: the oneOf of the merged node, and
\* schema.set; ra is what the forEach over its alternatives left
finishProperty(st, k, merged, ra) ==
  LET hasOneOf == Has(merged, "oneOf")
      heap1 == IF hasOneOf /\ merged.oneOf.at # "own"
               THEN [st.heap EXCEPT ![merged.oneOf.at] = ra.alts] ELSE st.heap
      work1 == IF hasOneOf /\ merged.oneOf.at = "own"
               THEN Put(merged, "oneOf", OwnArray(ra.alts)) ELSE merged
      work2 == IF hasOneOf /\ firstDeprecation(ra.alts, 1) # ""
               THEN Put(work1, "deprecationMessage", firstDeprecation(ra.alts, 1))
               ELSE work1
  IN IF ra.threw THEN [st EXCEPT !.threw = TRUE, !.error = ra.error]
     ELSE [st EXCEPT !.heap = heap1, !.cache = ra.cache,
                     !.schema = schemaSet(st.schema, k,
                                          deriveAlpha(work2, ra.alts, hasOneOf))]

\* the loop body once the node's own $ref is merged: cache holds the
\* definition recorded for it
resolveMerged(st, k, merged, cache) ==
  With(IF Has(merged, "oneOf")
       THEN resolveAlternatives(ArrayOf(st.heap, merged), 1, st.defs, cache)
       ELSE [threw |-> FALSE, alts |-> <<>>, cache |-> cache],
       LAMBDA ra : finishProperty(st, k, merged, ra))

\* the body of the loop over Object.entries(properties) for one [k, v];
\* st holds the definitions, the shared arrays, the cache and the schema
resolveProperty(st, k, v) ==
  IF TruthySeq(v, "$ref")
  THEN With(resolveReference(v["$ref"], st.defs),
            LAMBDA r :
              IF r.threw THEN [st EXCEPT !.threw = TRUE, !.error = r.error]
              ELSE With(ObjectAssign(Delete(v, "$ref"), r.value),
                        LAMBDA merged :
                          resolveMerged(st, k, merged,
                                        recordDefinition(st.cache, r))))
  ELSE resolveMerged(st, k, v, st.cache)

RECURSIVE resolveLoop(_, _, _)
resolveLoop(st, entries, i) ==
  IF i > Len(entries) \/ st.threw THEN st
  ELSE With(resolveProperty(st, entries[i].key, entries[i].value),
            LAMBDA st1 : resolveLoop(st1, entries, i + 1))

\* JSON5.parse yields a tree: every oneOf array belongs to the node or the
\* definition that declares it
loadNode(v) == IF Has(v, "oneOf") THEN Put(v, "oneOf", OwnArray(v.oneOf)) ELSE v
loadDef(d, v) == IF Has(v, "oneOf") THEN Put(v, "oneOf", SharedArray(d)) ELSE v

DefsWithOneOf(defs) == {d \in DOMAIN defs : Has(defs[d], "oneOf")}

\* the descriptor as a reader of the finished map sees it
descriptor(heap, work) ==
  IF Has(work, "oneOf") THEN Put(work, "oneOf", ArrayOf(heap, work)) ELSE work

\* the state the loop of #resolveSchema starts from
initialState(loaded) ==
  [defs |-> [d \in DOMAIN loaded.defs |-> loadDef(d, loaded.defs[d])],
   heap |-> [d \in DefsWithOneOf(loaded.defs) |-> loaded.defs[d].oneOf],
   cache |-> EmptyObject,
   schema |-> EmptyObject,
   threw |-> FALSE,
   error |-> ""]

\* Object.entries(properties)
propertyEntries(loaded) ==
  ObjectEntries([i \in 1 .. Len(loaded.properties) |->
                   [key |-> loaded.properties[i].key,
                    value |-> loadNode(loaded.properties[i].value)]])

\* what the constructor is left with: the map returned and the cache, or
\* the error thrown
resolved(st) ==
  IF st.threw THEN [threw |-> TRUE, error |-> st.error]
  ELSE [threw |-> FALSE,
        schema |-> [k \in DOMAIN st.schema |-> descriptor(st.heap, st.schema[k])],
        cache |-> st.cache]

\* VSCodeSchema.#resolveSchema(loaded)
resolveSchema(loaded) ==
  With(propertyEntries(loaded),
       LAMBDA entries :
         With(resolveLoop(initialState(loaded), entries, 1),
              LAMBDA st : resolved(st)))

----------------------------------------------------------------------------
(* Inputs *)

Ref(cat, def) == <<"#", "/", "$", cat, "/", def>>

MsgTransparent == "This color must be transparent or it will obscure content"
MsgOpaque == "This color must be opaque"
MsgDeprecated == "This color is deprecated"
MsgLegacy == "This legacy color is replaced"

Alt(pattern, message) == [pattern |-> pattern, patternErrorMessage |-> message]
AltDeprecated == [deprecationMessage |-> MsgDeprecated]

\* Property nodes of the documents validation is run against
ValidationOneOfs ==
  { <<Alt(PatAlpha8, MsgTransparent)>>,
    <<Alt(PatHex6or8, MsgOpaque), Alt(PatAlpha8, MsgTransparent)>>,
    <<Alt(PatAlpha8, "")>>,
    <<Alt(PatMalformed, MsgTransparent)>>,
    <<Alt(PatAlpha8, MsgTransparent), Alt(PatMalformed, MsgOpaque)>>,
    <<AltDeprecated, Alt(PatAlpha8, MsgTransparent)>>,
    <<Alt(PatMalformed, MsgTransparent) @@ AltDeprecated>>,
    <<[x \in {"$ref"} |-> Ref("defs", "d1")]>> }

ValidationNodes ==
  { [description |-> "Editor background"], [description |-> ""], EmptyObject }
  \cup { [oneOf |-> o] : o \in ValidationOneOfs }
  \cup { [description |-> "Overlay colour", oneOf |-> o] : o \in ValidationOneOfs }

SecondNodes ==
  { [description |-> "Border colour"],
    [oneOf |-> <<Alt(PatMalformed, MsgTransparent)>>] }

ValidationDefs ==
  [d \in {"d1"} |-> Alt(PatAlpha8, MsgTransparent)]

ValidationDocs ==
  { [properties |-> <<[key |-> "p1", value |-> n]>>, defs |-> ValidationDefs] :
      n \in ValidationNodes }
  \cup
  { [properties |-> <<[key |-> "p1", value |-> n], [key |-> "p2", value |-> m]>>,
     defs |-> ValidationDefs] : n \in ValidationNodes, m \in SecondNodes }

\* keys a user mapping may hold: schema keys, unknown keys, an array index
ColorKeys == {"p1", "p2", "not.a.real.prop", "7"}

ColorValues ==
  { NonString("number"),
    Str(DefaultLiteral),
    Str(<<"#", "a", "B", "c">>),
    Str(<<"#", "a", "a", "b", "b", "c", "c">>),
    Str(<<"#", "A", "a", "b", "b", "c", "c", "D", "d">>),
    Str(<<"b", "l", "u", "e">>),
    Str(<<"#", "1", "2", "3", "4", "5">>) }

KeysOf(obj) == {obj[i].key : i \in 1 .. Len(obj)}

\* Property nodes and definitions of the documents resolution is run on
SharedDefs ==
  [d \in {"d1", "d2"} |->
     IF d = "d1"
     THEN [description |-> "Shared colour",
           oneOf |-> <<Alt(PatAlpha8, MsgTransparent)>>]
     ELSE Alt(PatAlpha8, MsgTransparent) @@ AltDeprecated]

NestedDefs ==
  [d \in {"d1", "d2"} |->
     IF d = "d1"
     THEN [description |-> "Shared colour",
           oneOf |-> <<[x \in {"$ref"} |-> Ref("defs", "d2")],
                       Alt(PatHex6or8, MsgOpaque)>>]
     ELSE Alt(PatAlpha8, MsgTransparent) @@ [x \in {"$ref"} |-> Ref("defs", "d3")]]

\* a definition that carries a deprecationMessage and a sample of its own
\* beside two deprecated alternatives, the first through its reference
LegacyDefs ==
  [d \in {"d1", "d2"} |->
     IF d = "d1"
     THEN [description |-> "Legacy colour",
           deprecationMessage |-> MsgLegacy,
           sample |-> <<"#", "1", "2", "3", "4">>,
           oneOf |-> <<[x \in {"$ref"} |-> Ref("defs", "d2")],
                       Alt(PatHex6, MsgOpaque) @@ [deprecationMessage |-> MsgLegacy]>>]
     ELSE Alt(PatAlpha8, MsgTransparent) @@ AltDeprecated]

\* a definition whose only alternative references a definition that carries
\* a $ref of its own, to a deprecated definition
ChainDefs ==
  [d \in {"d1", "d2", "d3"} |->
     IF d = "d1"
     THEN [description |-> "Shared colour",
           oneOf |-> <<[x \in {"$ref"} |-> Ref("defs", "d2")]>>]
     ELSE IF d = "d2"
     THEN Alt(PatAlpha8, MsgTransparent) @@ [x \in {"$ref"} |-> Ref("defs", "d3")]
     ELSE Alt(PatHex6or8, MsgOpaque) @@ AltDeprecated]

\* a definition whose alternative has a pattern of its own beside its
\* reference, to a definition that has a pattern and a reference in turn
OverrideDefs ==
  [d \in {"d1", "d2", "d3"} |->
     IF d = "d1"
     THEN [description |-> "Shared colour",
           oneOf |-> <<Alt(PatHex6, MsgOpaque) @@ [x \in {"$ref"} |-> Ref("defs", "d2")]>>]
     ELSE IF d = "d2"
     THEN Alt(PatAlpha8, MsgTransparent) @@ [x \in {"$ref"} |-> Ref("defs", "d3")]
     ELSE Alt(PatHex6or8, MsgOpaque)]

ResolveDefs ==
  {EmptyObject, SharedDefs, NestedDefs, LegacyDefs, ChainDefs, OverrideDefs}

RefNode(ref) == [x \in {"$ref"} |-> ref]

ResolveNodes ==
  { [description |-> "Editor background"],
    RefNode(Ref("defs", "d1")),
    RefNode(Ref("colors", "d1")),
    RefNode(Ref("defs", "d3")),
    RefNode(Ref("defs", "constructor")),
    RefNode(<<"#", "/", "defs", "/", "d1">>),
    RefNode(<<"#", "/", "$", "defs", "/">>),
    RefNode(<<>>),
    [oneOf |-> <<RefNode(Ref("defs", "d2")), Alt(PatHex6or8, MsgOpaque)>>],
    [oneOf |-> <<RefNode(Ref("defs", "d3"))>>],
    [oneOf |-> <<RefNode(Ref("colors", "d2"))>>],
    [oneOf |-> <<Alt(PatMalformed, MsgTransparent), Alt(PatAlpha8, MsgTransparent)>>,
     sample |-> <<"#", "0", "0", "0">>],
    [description |-> "Own description",
     oneOf |-> <<RefNode(Ref("defs", "d3"))>>] @@ RefNode(Ref("defs", "d1")),
    [description |-> "Own description"] @@ RefNode(Ref("defs", "d1")) }

PropertyKeys == <<"p1", "p2", "p3", "p4">>

PropertyLists ==
  UNION { [1 .. n -> ResolveNodes] : n \in 1 .. MaxProps }

ResolveDocs ==
  { [properties |-> [i \in 1 .. Len(nodes) |->
                       [key |-> PropertyKeys[i], value |-> nodes[i]]],
     defs |-> defs] : nodes \in PropertyLists, defs \in ResolveDefs }

\* characters a candidate string is typed from
HexKeys == {"a", "F"}
OtherKeys == {"#", "g"}

NonHexCount(s) == Cardinality({i \in 1 .. Len(s) : s[i] \notin HexDigit})


----------------------------------------------------------------------------
(* The program *)

NoOutcome == [kind |-> "none"]

\* a Map entry that is absent, and one that holds v
Absent == [has |-> FALSE, value |-> <<>>]
Held(v) == [has |-> TRUE, value |-> v]

\* the modules that call VSCodeSchema.new(): activate and #prepareExport
Callers == {"activate", "export"}

\* nobody has called VSCodeSchema.new() yet
NoLoader ==
  /\ staticInstance = 0
  /\ newCalls = [c \in Callers |-> "idle"]
  /\ returned = <<>>

\* the paths of the theme files of the workspace, and null
Paths == {"a", "b"}
NoFile == "none"

\* no file was ever selected: nothing is on disk, cached, in flight or posted
NoFiles ==
  /\ disk = [p \in Paths |-> [exists |-> FALSE, data |-> <<>>, mtime |-> 0]]
  /\ selectedFile = NoFile
  /\ watcher = NoFile
  /\ userColorsMap = [p \in Paths |-> Absent]
  /\ validationsMap = [p \in Paths |-> Absent]
  /\ timestamps = [p \in Paths |-> Absent]
  /\ inflight = {}
  /\ begun = [calls |-> 0, saves |-> 0, deletions |-> 0]
  /\ posted = [type |-> "none"]
  /\ lastLoad = [n |-> 0, how |-> "none", threw |-> FALSE]

\* no panel has been opened: no file is selected and nothing is cached
NoPanel ==
  /\ themeFile = [readable |-> FALSE, colors |-> <<>>]
  /\ changeEvents = 0
  /\ timers = {}
  /\ updateTimeout = 0
  /\ handles = 0
  /\ updates = {}
  /\ cachedColors = Absent
  /\ validations = Absent
  /\ current = [type |-> "none"]

\* what a caller of validate observes: the list returned or the error thrown
Observed(r) ==
  IF r.kind = "returned" THEN [kind |-> "returned", results |-> r.results]
  ELSE [kind |-> "thrown", error |-> r.error]

Init ==
  /\ rawDoc \in ValidationDocs
  /\ instance = "none"
  /\ schema = EmptyObject
  /\ refCache = EmptyObject
  /\ schemaAtBuild = EmptyObject
  /\ userColors = <<>>
  /\ outcome = NoOutcome
  /\ prevOutcome = NoOutcome
  /\ checks = <<>>
  /\ lastIndex = 0
  /\ candidate = <<>>
  /\ verdict = NoOutcome
  /\ runs = <<>>
  /\ NoPanel
  /\ NoLoader
  /\ NoFiles

\* what a caller of new VSCodeSchema(data) is left with: the instance's map
\* or the error thrown
Run(r) ==
  IF r.threw THEN [kind |-> "error", error |-> r.error]
  ELSE [kind |-> "ok", schema |-> r.schema]

\* the object graph the first construction worked on, as it left it: the
\* property nodes are the descriptors
Leftover ==
  [properties |-> [i \in 1 .. Len(rawDoc.properties) |->
                     [key |-> rawDoc.properties[i].key,
                      value |-> schema[rawDoc.properties[i].key]]],
   defs |-> rawDoc.defs]

\* a parser that hands out the graph of the previous call again
JSON5parseReused(schemaData) ==
  IF instance = "ok" THEN Leftover ELSE schemaData

\* JSON5.parse(schemaData): every call builds a new object graph from the
\* text, so a construction never sees what another one did to its graph
JSON5parse(schemaData) == schemaData

\* new VSCodeSchema(data): the constructor resolves the document; when the
\* resolution throws no instance exists
Construct ==
  /\ instance = "none"
  /\ \E r \in {resolveSchema(JSON5parse(rawDoc))} :
       /\ runs' = <<Run(r)>>
       /\ IF r.threw
          THEN /\ instance' = "error"
               /\ UNCHANGED <<schema, refCache, schemaAtBuild>>
          ELSE /\ instance' = "ok"
               /\ schema' = r.schema
               /\ refCache' = r.cache
               /\ schemaAtBuild' = r.schema
  /\ UNCHANGED <<rawDoc, userColors, outcome, prevOutcome, checks, lastIndex,
                 candidate, verdict, panelVars, loaderVars, fileVars>>

\* new VSCodeSchema(data) once more on the same text: a call of new() that
\* overlaps the first, or one that follows a failed load
ConstructAgain ==
  /\ Len(runs) = 1
  /\ \E r \in {resolveSchema(JSON5parse(rawDoc))} :
       runs' = Append(runs, Run(r))
  /\ UNCHANGED <<rawDoc, instance, schema, refCache, schemaAtBuild, userColors,
                 outcome, prevOutcome, checks, lastIndex, candidate, verdict,
                 panelVars, loaderVars, fileVars>>

\* the theme file gains a colour: the next mapping handed to validate
AddColor(key, value) ==
  /\ instance = "ok"
  /\ Len(userColors) < MaxColors
  /\ key \notin KeysOf(userColors)
  /\ userColors' = Append(userColors, [key |-> key, value |-> value])
  /\ outcome' = NoOutcome
  /\ prevOutcome' = NoOutcome
  /\ checks' = <<>>
  /\ UNCHANGED <<rawDoc, instance, schema, refCache, schemaAtBuild, lastIndex,
                 candidate, verdict, runs, panelVars, loaderVars, fileVars>>

\* schemaProp.sample || (schemaProp.alphaRequired ? "#ffffffaa" : "#ffffff")
scaffoldValue(schemaProp) ==
  IF TruthySeq(schemaProp, "sample") THEN schemaProp.sample
  ELSE IF Has(schemaProp, "alphaRequired") /\ schemaProp.alphaRequired THEN Probe8
  ELSE Probe6

\* the scaffold of copyMissingProperties: an entry for every key of the
\* schema map, taken in the order of the map from position i on, that is
\* not in the theme's colors (an inherited name counts as in)
RECURSIVE scaffold(_, _, _, _)
scaffold(keys, i, schemaMap, colors) ==
  IF i > Len(keys) THEN <<>>
  ELSE IF keys[i] \in KeysOf(colors) \cup ObjectPrototypeKeys
       THEN scaffold(keys, i + 1, schemaMap, colors)
       ELSE <<[key |-> keys[i], value |-> Str(scaffoldValue(schemaMap[keys[i]]))]>>
            \o scaffold(keys, i + 1, schemaMap, colors)

\* schemaMap.keys(): the keys of the schema map in insertion order
MapKeys == [i \in 1 .. Len(rawDoc.properties) |-> rawDoc.properties[i].key]

\* copyMissingProperties puts the scaffold on the clipboard, and the user
\* pastes it at the end of the theme's colors
PasteScaffold ==
  /\ instance = "ok"
  /\ \E missing \in {scaffold(MapKeys, 1, schema, userColors)} :
       /\ missing # <<>>
       /\ Len(userColors) + Len(missing) <= MaxColors
       /\ userColors' = userColors \o missing
  /\ outcome' = NoOutcome
  /\ prevOutcome' = NoOutcome
  /\ checks' = <<>>
  /\ UNCHANGED <<rawDoc, instance, schema, refCache, schemaAtBuild, lastIndex,
                 candidate, verdict, runs, panelVars, loaderVars, fileVars>>

\* await Validator.validate(this.#schema.map, userColors)
Validate ==
  /\ instance = "ok"
  /\ \E r \in {validate(schema, userColors, lastIndex)} :
       /\ outcome' = Observed(r)
       /\ checks' = r.calls
       /\ lastIndex' = r.lastIndex
  /\ prevOutcome' = outcome
  /\ UNCHANGED <<rawDoc, instance, schema, refCache, schemaAtBuild, userColors,
                 candidate, verdict, runs, panelVars, loaderVars, fileVars>>

Next ==
  \/ Construct
  \/ \E key \in ColorKeys, value \in ColorValues : AddColor(key, value)
  \/ PasteScaffold
  \/ Validate

Spec == Init /\ [][Next]_vars

----------------------------------------------------------------------------
(* Claims about Validator.validate, checked under Spec *)

Called == outcome.kind # "none"
Returned == outcome.kind = "returned"

Deprecated(key) == key \in DOMAIN schema /\ TruthyStr(schema[key], "deprecationMessage")

\* the colour grammar as the documentation words it: "#" and 3, 4, 6 or 8
\* hexadecimal digits
IsHexColour(s) ==
  /\ Len(s) \in {4, 5, 7, 9}
  /\ s[1] = "#"
  /\ \A i \in 2 .. Len(s) : s[i] \in HexDigit

WellFormed(v) == v.t = "string" /\ (v.s = DefaultLiteral \/ IsHexColour(v.s))

\* the alternatives the pattern check applies to
Constrains(option) ==
  TruthyStr(option, "pattern") /\ TruthyStr(option, "patternErrorMessage")

AlternativesOf(key) == IF Has(schema[key], "oneOf") THEN schema[key].oneOf ELSE <<>>

\* the alternatives of key whose pattern s does not match
Unmatched(key, s) ==
  {i \in 1 .. Len(AlternativesOf(key)) :
     /\ Constrains(AlternativesOf(key)[i])
     /\ ~(/\ RegExpCompiles(AlternativesOf(key)[i].pattern)
          /\ RegExpTest(AlternativesOf(key)[i].pattern, s))}

Least(S) == CHOOSE x \in S : \A y \in S : x <= y

\* C1: every key of the user mapping that the schema map lacks gets an entry
\* with status "invalid", description "" and message "Property <key> is not
\* allowed.", whatever its value is.
C1_UnknownKeyReported ==
  Called =>
    \A i \in 1 .. Len(userColors) :
      userColors[i].key \notin DOMAIN schema =>
        /\ Returned
        /\ \E j \in 1 .. Len(outcome.results) :
             outcome.results[j] =
               [property |-> userColors[i].key, status |-> "invalid",
                description |-> "", value |-> userColors[i].value,
                message |-> <<"Property ", userColors[i].key, " is not allowed.">>]

\* C2: every key whose descriptor has a non-empty deprecationMessage gets an
\* entry with status "warn" and the deprecation text as message, for every
\* value; the property check never changes that.
C2_DeprecatedKeyWarns ==
  Called =>
    \A i \in 1 .. Len(userColors) :
      Deprecated(userColors[i].key) =>
        /\ Returned
        /\ \E j \in 1 .. Len(outcome.results) :
             /\ outcome.results[j].property = userColors[i].key
             /\ outcome.results[j].status = "warn"
             /\ Has(outcome.results[j], "message")
             /\ outcome.results[j].message =
                  <<schema[userColors[i].key].deprecationMessage>>

\* C3: a key of the schema map without deprecationMessage gets status "valid"
\* and no message exactly when its value is a string, is "default" or a hex
\* colour, and matches the pattern of every alternative that has a pattern
\* and a patternErrorMessage; otherwise status "invalid" and a non-empty
\* message.
C3_ValidExactlyWhenWellFormed ==
  Called =>
    \A i \in 1 .. Len(userColors) :
      (userColors[i].key \in DOMAIN schema /\ ~Deprecated(userColors[i].key)) =>
        /\ Returned
        /\ \E j \in 1 .. Len(outcome.results) :
             LET e == outcome.results[j] IN
             /\ e.property = userColors[i].key
             /\ IF /\ WellFormed(userColors[i].value)
                   /\ Unmatched(userColors[i].key, userColors[i].value.s) = {}
                THEN e.status = "valid" /\ ~Has(e, "message")
                ELSE /\ e.status = "invalid"
                     /\ Has(e, "message")
                     /\ e.message \notin {<<>>, <<"">>}

\* C6: validate returns one entry per entry of the user mapping, in the
\* insertion order of its keys; the i-th entry carries the i-th key and the
\* i-th value unchanged.
C6_OneEntryPerKeyInInsertionOrder ==
  Called =>
    /\ Returned
    /\ Len(outcome.results) = Len(userColors)
    /\ \A i \in 1 .. Len(userColors) :
         /\ outcome.results[i].property = userColors[i].key
         /\ outcome.results[i].value = userColors[i].value

\* C7: validate never raises on a schema map that a successful resolution
\* produced, whatever the values of the user mapping are.
C7_ValidateNeverThrows == outcome.kind # "thrown"

\* C5: the failure reason of the property check follows a fixed priority.  A
\* non-string value fails with the type message whatever the descriptor
\* holds; a string that is neither "default" nor a hex colour fails with
\* the format message before any pattern is compiled; otherwise a failure
\* carries the patternErrorMessage of the first alternative, in declaration
\* order, whose pattern the value does not match, and that alternative
\* decides the check without the later ones being consulted.
C5_FailureReasonPriority ==
  \A c \in 1 .. Len(checks) :
    LET v == checks[c].value
        res == checks[c].result
        key == checks[c].key
        failed == ~res.threw /\ ~res.isValid
    IN /\ v.t # "string" => failed /\ res.error = "Color values must be strings"
       /\ (v.t = "string" /\ ~WellFormed(v)) =>
            /\ failed
            /\ res.error =
                 "Invalid color format. Use #RGB, #RGBA, #RRGGBB or #RRGGBBAA."
       /\ WellFormed(v) =>
            LET U == Unmatched(key, v.s) IN
            /\ failed =>
                 /\ U # {}
                 /\ res.error = AlternativesOf(key)[Least(U)].patternErrorMessage
            /\ (U # {} /\ RegExpCompiles(AlternativesOf(key)[Least(U)].pattern)) =>
                 failed

\* a well-formed colour failed on the second alternative after matching the
\* first, and a first alternative decided the check ahead of a malformed one
C5_Witness ==
  \E c \in 1 .. Len(checks) :
    /\ WellFormed(checks[c].value)
    /\ ~checks[c].result.threw
    /\ ~checks[c].result.isValid
    /\ Len(AlternativesOf(checks[c].key)) = 2
    /\ \/ Least(Unmatched(checks[c].key, checks[c].value.s)) = 2
       \/ ~RegExpCompiles(AlternativesOf(checks[c].key)[2].pattern)

----------------------------------------------------------------------------
(* Resolution on its own, over the wider family of documents *)

InitResolve ==
  /\ rawDoc \in ResolveDocs
  /\ instance = "none"
  /\ schema = EmptyObject
  /\ refCache = EmptyObject
  /\ schemaAtBuild = EmptyObject
  /\ userColors = <<>>
  /\ outcome = NoOutcome
  /\ prevOutcome = NoOutcome
  /\ checks = <<>>
  /\ lastIndex = 0
  /\ candidate = <<>>
  /\ verdict = NoOutcome
  /\ runs = <<>>
  /\ NoPanel
  /\ NoLoader
  /\ NoFiles

NextResolve == Construct \/ ConstructAgain

SpecResolve == InitResolve /\ [][NextResolve]_vars

----------------------------------------------------------------------------
(* The format check on its own, over the strings typed from a few keys *)

NoDocument == [properties |-> <<>>, defs |-> EmptyObject]

InitFormat ==
  /\ rawDoc = NoDocument
  /\ instance = "none"
  /\ schema = EmptyObject
  /\ refCache = EmptyObject
  /\ schemaAtBuild = EmptyObject
  /\ userColors = <<>>
  /\ outcome = NoOutcome
  /\ prevOutcome = NoOutcome
  /\ checks = <<>>
  /\ lastIndex = 0
  /\ candidate = <<>>
  /\ verdict = NoOutcome
  /\ runs = <<>>
  /\ NoPanel
  /\ NoLoader
  /\ NoFiles

\* #validateColorProperty on the string s for a descriptor without oneOf:
\* the type check and the format check decide
CheckString(s) ==
  \E r \in {validateColorProperty(Str(s), EmptyObject, lastIndex)} :
    /\ candidate' = s
    /\ verdict' = IF r.isValid THEN [kind |-> "accepted"]
                  ELSE [kind |-> "rejected", error |-> r.error]
    /\ lastIndex' = r.lastIndex
    /\ UNCHANGED <<rawDoc, instance, schema, refCache, schemaAtBuild, userColors,
                   outcome, prevOutcome, checks, runs, panelVars, loaderVars, fileVars>>

CheckExtended(c) ==
  /\ Len(candidate) < MaxStrLen
  /\ c \notin HexDigit => NonHexCount(candidate) < MaxNonHex
  /\ CheckString(Append(candidate, c))

CheckShortened ==
  /\ candidate # <<>>
  /\ CheckString(SubSeq(candidate, 1, Len(candidate) - 1))

CheckDefault ==
  /\ candidate = <<>>
  /\ CheckString(DefaultLiteral)

NextFormat ==
  \/ \E c \in HexKeys \cup OtherKeys : CheckExtended(c)
  \/ CheckShortened
  \/ CheckDefault

SpecFormat == InitFormat /\ [][NextFormat]_vars

----------------------------------------------------------------------------
(* Claims about the format check, checked under SpecFormat *)

\* C4: the format check accepts a string exactly when it is the literal
\* "default" or "#" followed by 3, 4, 6 or 8 hexadecimal digits of either
\* case and nothing else; every other string is rejected with "Invalid color
\* format. Use #RGB, #RGBA, #RRGGBB or #RRGGBBAA."
C4_FormatAcceptsExactlyTheGrammar ==
  verdict.kind # "none" =>
    IF candidate = DefaultLiteral \/ IsHexColour(candidate)
    THEN verdict.kind = "accepted"
    ELSE /\ verdict.kind = "rejected"
         /\ verdict.error =
              "Invalid color format. Use #RGB, #RGBA, #RRGGBB or #RRGGBBAA."

\* "#" and eight digits of both cases were accepted
C4_Witness ==
  /\ verdict.kind = "accepted"
  /\ Len(candidate) = 9
  /\ \E i \in 2 .. 9 : candidate[i] = "a"
  /\ \E i \in 2 .. 9 : candidate[i] = "F"

----------------------------------------------------------------------------
(* Claims about the resolution, checked under SpecResolve *)

DeclaredKeys == KeysOf(rawDoc.properties)

\* C9: when the resolution succeeds the keys of the schema map are exactly
\* the keys of the document's properties: none is added, none is dropped.
C9_SchemaKeysAreThePropertyKeys ==
  instance = "ok" => DOMAIN schema = DeclaredKeys

\* two properties were resolved, one through a definition, one deprecated
C9_Witness ==
  /\ instance = "ok"
  /\ Cardinality(DeclaredKeys) = 2
  /\ refCache # EmptyObject
  /\ \E k \in DOMAIN schema : TruthyStr(schema[k], "deprecationMessage")

\* the $ref texts of the property nodes and of their oneOf alternatives
NodeRefs ==
  {rawDoc.properties[i].value["$ref"] :
     i \in {j \in 1 .. Len(rawDoc.properties) :
              Has(rawDoc.properties[j].value, "$ref")}}

AlternativeRefs ==
  UNION { {rawDoc.properties[i].value.oneOf[a]["$ref"] :
             a \in {b \in 1 .. Len(rawDoc.properties[i].value.oneOf) :
                      Has(rawDoc.properties[i].value.oneOf[b], "$ref")}} :
          i \in {j \in 1 .. Len(rawDoc.properties) :
                   Has(rawDoc.properties[j].value, "oneOf")} }

\* a reference of the shape #/$<category>/<definitionName> whose category or
\* whose definition the document does not hold
Dangling(ref) ==
  /\ Len(ref) = 6
  /\ SubSeq(ref, 1, 3) = <<"#", "/", "$">>
  /\ ref[5] = "/"
  /\ \/ ref[4] # "defs"
     \/ ref[6] \notin DOMAIN rawDoc.defs

\* C10: a document in which a property node or a oneOf alternative
\* references a category or a definition name that does not exist is never
\* resolved into a schema map: the resolution raises.
C10_DanglingReferenceRaises ==
  (\E ref \in NodeRefs \cup AlternativeRefs : Dangling(ref)) => instance # "ok"

\* a reference text of the shape #/$<category>/<definitionName>, with both
\* segments present
Shaped(ref) ==
  /\ Len(ref) = 6
  /\ SubSeq(ref, 1, 3) = <<"#", "/", "$">>
  /\ ref[4] # ""
  /\ ref[5] = "/"
  /\ ref[6] # ""

\* C11: a document in which a property node or a oneOf alternative carries a
\* $ref that does not have the shape #/$<category>/<definitionName> is never
\* resolved into a schema map: the resolution raises, and the property is
\* neither kept nor dropped silently.
C11_MalformedReferenceRaises ==
  (\E ref \in NodeRefs \cup AlternativeRefs : ~Shaped(ref)) => instance # "ok"

\* the definition a resolved reference text stands for: $defs[def], whatever
\* the category segment says
Definition(ref) ==
  IF ref[6] \in DOMAIN rawDoc.defs THEN rawDoc.defs[ref[6]] ELSE EmptyObject

UsesRef(node) == TruthySeq(node, "$ref")

\* the list of alternatives the resolution of property i works on, as the
\* document declares it: the referenced definition's list when it has one,
\* else the node's own
SourceAlternatives(i) ==
  LET node == rawDoc.properties[i].value IN
    IF UsesRef(node) /\ Has(Definition(node["$ref"]), "oneOf")
    THEN Definition(node["$ref"]).oneOf
    ELSE IF Has(node, "oneOf") THEN node.oneOf
    ELSE <<>>

\* descriptor field f of property i holds what definition d holds in f; the
\* list of alternatives is compared by its length, its elements below
HoldsField(i, d, f) ==
  LET desc == schema[rawDoc.properties[i].key] IN
    /\ Has(desc, f)
    /\ IF f = "oneOf" THEN Len(desc.oneOf) = Len(d.oneOf) ELSE desc[f] = d[f]

\* every alternative of property i that used $ref holds every field of the
\* definition it referenced
AlternativesHoldTheirDefinitions(i) ==
  LET desc == schema[rawDoc.properties[i].key]
      src == SourceAlternatives(i)
  IN \A a \in 1 .. Len(src) :
       UsesRef(src[a]) =>
         /\ Has(desc, "oneOf")
         /\ Len(desc.oneOf) = Len(src)
         /\ \A f \in DOMAIN Definition(src[a]["$ref"]) :
              /\ Has(desc.oneOf[a], f)
              /\ desc.oneOf[a][f] = Definition(src[a]["$ref"])[f]

\* C12: after a successful resolution every descriptor whose
\* property node used $ref holds every field of the referenced definition
\* with the definition's value, and every alternative that used $ref holds
\* every field of its referenced definition.
C12_EveryReferencedFieldHeld ==
  instance = "ok" =>
    \A i \in 1 .. Len(rawDoc.properties) :
      /\ UsesRef(rawDoc.properties[i].value) =>
           \A f \in DOMAIN Definition(rawDoc.properties[i].value["$ref"]) :
             HoldsField(i, Definition(rawDoc.properties[i].value["$ref"]), f)
      /\ AlternativesHoldTheirDefinitions(i)

\* does the pattern of an alternative match the probe
PatternMatches(option, probe) ==
  /\ TruthyStr(option, "pattern")
  /\ RegExpCompiles(option.pattern)
  /\ RegExpTest(option.pattern, probe)

DescriptorAlternatives(k) == IF Has(schema[k], "oneOf") THEN schema[k].oneOf ELSE <<>>

\* C13: for every resolved descriptor alphaRequired is true exactly when a
\* pattern among its resolved alternatives matches "#ffffffaa" and no
\* pattern among them matches "#ffffff"; without oneOf or without patterns
\* it is false.
C13_AlphaRequiredFromProbes ==
  instance = "ok" =>
    \A k \in DOMAIN schema :
      /\ Has(schema[k], "alphaRequired")
      /\ schema[k].alphaRequired =
           (/\ \E a \in 1 .. Len(DescriptorAlternatives(k)) :
                 PatternMatches(DescriptorAlternatives(k)[a], Probe8)
            /\ ~\E a \in 1 .. Len(DescriptorAlternatives(k)) :
                  PatternMatches(DescriptorAlternatives(k)[a], Probe6))

\* the node of property i with the fields of the definition it references
\* laid over it: the fields the source data provides
SourceFields(i) ==
  LET node == rawDoc.properties[i].value IN
    IF UsesRef(node)
    THEN [f \in DOMAIN node \cup DOMAIN Definition(node["$ref"]) |->
            IF f \in DOMAIN Definition(node["$ref"])
            THEN Definition(node["$ref"])[f] ELSE node[f]]
    ELSE node

\* C14: the sample of every resolved descriptor is the sample the source
\* data (the property node or the definition merged into it) provides; when
\* it provides none the sample is "#ffffffaa" if the descriptor's
\* alphaRequired is true and "#ffffff" if it is false.
C14_SampleProvidedOrDefaulted ==
  instance = "ok" =>
    \A i \in 1 .. Len(rawDoc.properties) :
      LET desc == schema[rawDoc.properties[i].key] IN
        /\ Has(desc, "sample")
        /\ desc.sample =
             IF Has(SourceFields(i), "sample") THEN SourceFields(i).sample
             ELSE IF desc.alphaRequired THEN Probe8 ELSE Probe6

\* one descriptor kept the sample of its source, another was given the
\* eight-digit default
C14_Witness ==
  /\ instance = "ok"
  /\ \E i \in 1 .. Len(rawDoc.properties) :
       /\ Has(SourceFields(i), "sample")
       /\ schema[rawDoc.properties[i].key].sample \notin {Probe6, Probe8}
  /\ \E i \in 1 .. Len(rawDoc.properties) :
       /\ ~Has(SourceFields(i), "sample")
       /\ schema[rawDoc.properties[i].key].alphaRequired
       /\ schema[rawDoc.properties[i].key].sample = Probe8

Malformed(option) ==
  TruthyStr(option, "pattern") /\ ~RegExpCompiles(option.pattern)

\* the property nodes that declare an alternative with a malformed pattern
MalformedNodes ==
  {i \in 1 .. Len(rawDoc.properties) :
     /\ Has(rawDoc.properties[i].value, "oneOf")
     /\ \E a \in 1 .. Len(rawDoc.properties[i].value.oneOf) :
          Malformed(rawDoc.properties[i].value.oneOf[a])}

\* the node with the pattern taken out of every alternative whose pattern is
\* malformed
WithoutMalformed(node) ==
  IF Has(node, "oneOf")
  THEN Put(node, "oneOf",
           [a \in 1 .. Len(node.oneOf) |->
              IF Malformed(node.oneOf[a]) THEN Delete(node.oneOf[a], "pattern")
              ELSE node.oneOf[a]])
  ELSE node

\* the document without its malformed patterns
Repaired ==
  [properties |-> [i \in 1 .. Len(rawDoc.properties) |->
                     [key |-> rawDoc.properties[i].key,
                      value |-> WithoutMalformed(rawDoc.properties[i].value)]],
   defs |-> rawDoc.defs]

\* C16: a malformed regular expression in a oneOf alternative never aborts
\* the resolution.  A document with malformed patterns resolves exactly when
\* the same document without them does (always, when it has no reference);
\* every property then is in the schema map, and alphaRequired of each is
\* what the remaining alternatives give.
C16_MalformedPatternSkipped ==
  (instance # "none" /\ MalformedNodes # {}) =>
    /\ (instance = "ok") = ~resolveSchema(Repaired).threw
    /\ NodeRefs \cup AlternativeRefs = {} => instance = "ok"
    /\ instance = "ok" =>
         /\ DOMAIN schema = DeclaredKeys
         /\ \A k \in DOMAIN schema :
              schema[k].alphaRequired = resolveSchema(Repaired).schema[k].alphaRequired

\* a property with a malformed pattern ahead of an 8-digit pattern was
\* resolved beside another property, and demands an alpha channel
C16_Witness ==
  /\ instance = "ok"
  /\ Cardinality(DeclaredKeys) = 2
  /\ \E i \in MalformedNodes :
       /\ Malformed(rawDoc.properties[i].value.oneOf[1])
       /\ schema[rawDoc.properties[i].key].alphaRequired

\* the positions of the alternatives of descriptor k that carry a non-empty
\* deprecationMessage
DeprecatedAlternatives(k) ==
  {a \in 1 .. Len(DescriptorAlternatives(k)) :
     TruthyStr(DescriptorAlternatives(k)[a], "deprecationMessage")}

\* C17: when the alternatives of a descriptor, with their references
\* resolved, carry a non-empty deprecationMessage, the descriptor's
\* deprecationMessage is the first of them in declaration order, never a
\* later one.
C17_FirstDeprecationAdopted ==
  instance = "ok" =>
    \A k \in DOMAIN schema :
      DeprecatedAlternatives(k) # {} =>
        /\ Has(schema[k], "deprecationMessage")
        /\ schema[k].deprecationMessage =
             DescriptorAlternatives(k)[Least(DeprecatedAlternatives(k))].deprecationMessage

----------------------------------------------------------------------------
(* Claims about resolution and validation together, checked under Spec *)

SixDigits(v) == v.t = "string" /\ IsHexColour(v.s) /\ Len(v.s) = 7
EightDigits(v) == v.t = "string" /\ IsHexColour(v.s) /\ Len(v.s) = 9

\* the descriptor of key demands an alpha channel and is not deprecated
DemandsAlpha(key) ==
  /\ key \in DOMAIN schema
  /\ schema[key].alphaRequired
  /\ ~Deprecated(key)

\* the error messages configured for the patterns of key that reject s
ConfiguredMessages(key, s) ==
  {AlternativesOf(key)[a].patternErrorMessage :
     a \in {b \in 1 .. Len(AlternativesOf(key)) :
              /\ TruthyStr(AlternativesOf(key)[b], "pattern")
              /\ Has(AlternativesOf(key)[b], "patternErrorMessage")
              /\ ~PatternMatches(AlternativesOf(key)[b], s)}}

\* C15: for a property whose descriptor has alphaRequired true and no
\* deprecationMessage, a 6-digit hex value gets status "invalid" with the
\* error message configured for the pattern, and an 8-digit hex value gets
\* status "valid".
C15_TransparencyEnforced ==
  Called =>
    \A i \in 1 .. Len(userColors) :
      LET key == userColors[i].key
          v == userColors[i].value
      IN (DemandsAlpha(key) /\ (SixDigits(v) \/ EightDigits(v))) =>
           /\ Returned
           /\ \E j \in 1 .. Len(outcome.results) :
                LET e == outcome.results[j] IN
                /\ e.property = key
                /\ IF EightDigits(v)
                   THEN e.status = "valid"
                   ELSE /\ e.status = "invalid"
                        /\ Has(e, "message")
                        /\ \E m \in ConfiguredMessages(key, v.s) :
                             m # "" /\ e.message = <<m>>

\* C20: the description of an entry is the descriptor's description when
\* the key is in the schema map and the descriptor has a non-empty one, "No
\* description available" when the key is in the schema map and the
\* descriptor has none, and "" when the key is not in the schema map,
\* whatever the value and the status are.
C20_DescriptionFromDescriptor ==
  Returned =>
    \A j \in 1 .. Len(outcome.results) :
      LET e == outcome.results[j] IN
        e.description =
          IF e.property \notin DOMAIN schema THEN ""
          ELSE IF Has(schema[e.property], "description")
                  /\ schema[e.property].description # ""
               THEN schema[e.property].description
               ELSE "No description available"

\* a described key was reported with its description, and a key whose
\* description is empty or missing was reported invalid with the fallback
C20_Witness ==
  /\ Returned
  /\ \E j \in 1 .. Len(outcome.results) :
       outcome.results[j].description = "Overlay colour"
  /\ \E j \in 1 .. Len(outcome.results) :
       /\ outcome.results[j].description = "No description available"
       /\ outcome.results[j].status = "invalid"

----------------------------------------------------------------------------
(* The panel: live revalidation of the selected theme file (HexPanel) *)

\* the schema documents the panel is opened with
PanelNodes ==
  { [oneOf |-> <<Alt(PatAlpha8, MsgTransparent)>>],
    [oneOf |-> <<Alt(PatAlpha8, MsgTransparent), Alt(PatMalformed, MsgOpaque)>>] }

PanelDocs ==
  { [properties |-> <<[key |-> "p1", value |-> n]>>, defs |-> EmptyObject] :
      n \in PanelNodes }

\* what the colors object of the theme file may hold
ThemeColors ==
  { <<[key |-> "p1", value |-> Str(<<"#", "a", "a", "b", "b", "c", "c">>)]>>,
    <<[key |-> "p1", value |-> Str(<<"#", "a", "a", "b", "b", "c", "c", "d", "d">>)]>> }

Readable(colors) == [readable |-> TRUE, colors |-> colors]

\* a file that is missing, empty, unparsable or without a colors key
Unreadable == [readable |-> FALSE, colors |-> <<>>]

ThemeFiles == {Readable(c) : c \in ThemeColors} \cup {Unreadable}

FirstColors == <<[key |-> "p1", value |-> Str(<<"#", "a", "a", "b", "b", "c", "c">>)]>>

\* this.#current of #updateData: the message posted to the webview
resultsMessage(colorsEntry, validationsEntry) ==
  [type |-> "validationResults",
   propertyCount |-> IF colorsEntry.has THEN Len(colorsEntry.value) ELSE 0,
   validationResults |-> validationsEntry]

\* #validate and #setValidations after #clearValidations: the entry of
\* #validations once validate has returned, or thrown into the catch
validationsAfter(r) ==
  IF r.kind = "returned" THEN Held(r.results) ELSE Absent

\* the panel is open on a file that was selected, loaded, validated and
\* posted, and the watcher is set up
InitPanel ==
  /\ rawDoc \in PanelDocs
  /\ instance = "ok"
  /\ schema = resolveSchema(rawDoc).schema
  /\ refCache = resolveSchema(rawDoc).cache
  /\ schemaAtBuild = schema
  /\ runs = <<Run(resolveSchema(rawDoc))>>
  /\ userColors = <<>>
  /\ outcome = NoOutcome
  /\ prevOutcome = NoOutcome
  /\ checks = <<>>
  /\ lastIndex = 0
  /\ candidate = <<>>
  /\ verdict = NoOutcome
  /\ themeFile = Readable(FirstColors)
  /\ changeEvents = 0
  /\ timers = {}
  /\ updateTimeout = 0
  /\ handles = 0
  /\ updates = {}
  /\ cachedColors = Held(FirstColors)
  /\ validations = validationsAfter(validate(schema, FirstColors, 0))
  /\ current = resultsMessage(cachedColors, validations)
  /\ NoLoader
  /\ NoFiles

\* the theme file is saved with another content; the watcher will report it
WriteFile(f) ==
  /\ changeEvents + handles < MaxChanges
  /\ f # themeFile
  /\ themeFile' = f
  /\ changeEvents' = changeEvents + 1
  /\ UNCHANGED <<coreVars, loaderVars, fileVars, timers, updateTimeout, handles, updates, cachedColors,
                 validations, current>>

\* onDidChange(() => this.#debouncedUpdateData({force: true})): the pending
\* timer that #updateTimeout names is cleared and a new one is set
OnDidChange ==
  /\ changeEvents > 0
  /\ changeEvents' = changeEvents - 1
  /\ handles' = handles + 1
  /\ timers' = (timers \ {updateTimeout}) \cup {handles + 1}
  /\ updateTimeout' = handles + 1
  /\ UNCHANGED <<coreVars, loaderVars, fileVars, themeFile, updates, cachedColors, validations, current>>

\* the timer fires after 150 ms: #updateData({force: true}) starts and
\* #loadThemeContent waits for the disk
TimerFires(id) ==
  /\ id \in timers
  /\ timers' = timers \ {id}
  /\ updates' = updates \cup {[timer |-> id, pc |-> "loading", read |-> Unreadable]}
  /\ UNCHANGED <<coreVars, loaderVars, fileVars, themeFile, changeEvents, updateTimeout, handles,
                 cachedColors, validations, current>>

\* the #updateData call that timer id started, while it is in flight
UpdatesOf(id) == {u \in updates : u.timer = id}

\* this.#selectedFile.loadData() reads the file as it is on disk now
ReadFile(id) ==
  /\ \E u \in UpdatesOf(id) :
       /\ u.pc = "loading"
       /\ updates' = (updates \ {u}) \cup {[u EXCEPT !.pc = "read", !.read = themeFile]}
  /\ UNCHANGED <<coreVars, loaderVars, fileVars, themeFile, changeEvents, timers, updateTimeout, handles,
                 cachedColors, validations, current>>

\* the load of an update resolves and the update runs to its end without
\* yielding to a timer or to the disk: #loadThemeContent caches the colors
\* (or logs the failure), the forced update clears the validations,
\* validates the cached colors and posts the message; the timer callback then
\* sets #updateTimeout to null
CompleteUpdate(id) ==
  /\ \E u \in UpdatesOf(id) :
       /\ u.pc = "read"
       /\ updates' = updates \ {u}
       /\ cachedColors' = IF u.read.readable THEN Held(u.read.colors) ELSE cachedColors
  /\ updateTimeout' = 0
  /\ IF cachedColors'.has
     THEN \E r \in {validate(schema, cachedColors'.value, lastIndex)} :
            /\ validations' = validationsAfter(r)
            /\ current' = resultsMessage(cachedColors', validations')
            /\ lastIndex' = r.lastIndex
     ELSE /\ validations' = Absent
          /\ UNCHANGED <<current, lastIndex>>
  /\ UNCHANGED <<rawDoc, instance, schema, refCache, userColors, outcome,
                 prevOutcome, checks, schemaAtBuild, candidate, verdict, runs,
                 themeFile, changeEvents, timers, handles, loaderVars, fileVars>>

NextPanel ==
  \/ \E f \in ThemeFiles : WriteFile(f)
  \/ OnDidChange
  \/ \E id \in 1 .. MaxChanges : TimerFires(id)
  \/ \E id \in 1 .. MaxChanges : ReadFile(id)
  \/ \E id \in 1 .. MaxChanges : CompleteUpdate(id)

SpecPanel == InitPanel /\ [][NextPanel]_vars

----------------------------------------------------------------------------
(* Claims about live revalidation, checked under SpecPanel *)

\* no change event, timer or update is outstanding
Quiescent == changeEvents = 0 /\ timers = {} /\ updates = {}

\* C19: every change of the selected theme file that leaves it readable
\* with a colors object is followed by a results message for its latest
\* colors: once the change events have stopped and every timer and update
\* has run, the results posted last are the validation of the content the
\* file has then, whatever the interleaving was.
C19_LastResultsAreOfTheFinalFile ==
  (Quiescent /\ handles > 0 /\ themeFile.readable) =>
    /\ current.type = "validationResults"
    /\ current.validationResults.has
    /\ validate(schema, themeFile.colors, 0).kind = "returned"
    /\ current.validationResults.value = validate(schema, themeFile.colors, 0).results

\* C25: at every moment at most one debounce timer of the panel is
\* pending: each file-change event cancels the timer that has not fired
\* yet, also when the event arrives while the update of a timer that fired
\* earlier is still in flight.
C25_OneTimerPending == Cardinality(timers) <= 1

----------------------------------------------------------------------------
(* The static loader VSCodeSchema.new *)

\* the schema documents the editor may serve: one property each
LoaderDocs == {d \in ResolveDocs : Len(d.properties) = 1}

InitNew ==
  /\ rawDoc \in LoaderDocs
  /\ instance = "none"
  /\ schema = EmptyObject
  /\ refCache = EmptyObject
  /\ schemaAtBuild = EmptyObject
  /\ userColors = <<>>
  /\ outcome = NoOutcome
  /\ prevOutcome = NoOutcome
  /\ checks = <<>>
  /\ lastIndex = 0
  /\ candidate = <<>>
  /\ verdict = NoOutcome
  /\ runs = <<>>
  /\ NoPanel
  /\ NoLoader
  /\ NoFiles

\* the calls of new() begun so far
Begun == Len(returned) + Cardinality({c \in Callers : newCalls[c] = "loading"})

\* new() up to its await: the cached instance is returned when there is
\* one, else the call waits for openTextDocument
NewCalled(c) ==
  /\ newCalls[c] = "idle"
  /\ Begun < MaxCalls
  /\ IF staticInstance # 0
     THEN /\ returned' = Append(returned, [kind |-> "instance", id |-> staticInstance])
          /\ UNCHANGED newCalls
     ELSE /\ newCalls' = [newCalls EXCEPT ![c] = "loading"]
          /\ UNCHANGED returned
  /\ UNCHANGED <<coreVars, panelVars, fileVars, staticInstance>>

\* new() after its await: the text is there, the constructor resolves it;
\* the instance is stored in #instance and returned, or the error is
\* logged and thrown again
NewLoaded(c) ==
  /\ newCalls[c] = "loading"
  /\ newCalls' = [newCalls EXCEPT ![c] = "idle"]
  /\ \E r \in {resolveSchema(JSON5parse(rawDoc))} :
       /\ runs' = Append(runs, Run(r))
       /\ IF r.threw
          THEN /\ returned' = Append(returned, [kind |-> "thrown", id |-> 0])
               /\ UNCHANGED staticInstance
          ELSE /\ staticInstance' = Len(runs) + 1
               /\ returned' = Append(returned, [kind |-> "instance", id |-> Len(runs) + 1])
  /\ UNCHANGED <<rawDoc, instance, schema, refCache, userColors, outcome,
                 prevOutcome, checks, schemaAtBuild, lastIndex, candidate, verdict,
                 panelVars, fileVars>>

NextNew ==
  \/ \E c \in Callers : NewCalled(c)
  \/ \E c \in Callers : NewLoaded(c)

SpecNew == InitNew /\ [][NextNew]_vars

----------------------------------------------------------------------------
(* Claims about the static loader, checked under SpecNew *)

----------------------------------------------------------------------------
(* The panel's files: selection, loading and the caches per file (HexPanel) *)

\* the schema document the panel is opened with here: every pattern compiles
FilesDocs ==
  { [properties |-> <<[key |-> "p1",
                       value |-> [oneOf |-> <<Alt(PatAlpha8, MsgTransparent)>>]]>>,
     defs |-> EmptyObject] }

\* a file that is on disk with content data, saved at time mtime
OnDisk(data, mtime) == [exists |-> TRUE, data |-> data, mtime |-> mtime]

\* the panel is open, both theme files are on disk, no file was selected yet
InitFiles ==
  /\ rawDoc \in FilesDocs
  /\ instance = "ok"
  /\ schema = resolveSchema(rawDoc).schema
  /\ refCache = resolveSchema(rawDoc).cache
  /\ schemaAtBuild = schema
  /\ runs = <<Run(resolveSchema(rawDoc))>>
  /\ userColors = <<>>
  /\ outcome = NoOutcome
  /\ prevOutcome = NoOutcome
  /\ checks = <<>>
  /\ lastIndex = 0
  /\ candidate = <<>>
  /\ verdict = NoOutcome
  /\ NoPanel
  /\ NoLoader
  /\ disk = [p \in Paths |-> OnDisk(Readable(FirstColors), 0)]
  /\ selectedFile = NoFile
  /\ watcher = NoFile
  /\ userColorsMap = [p \in Paths |-> Absent]
  /\ validationsMap = [p \in Paths |-> Absent]
  /\ timestamps = [p \in Paths |-> Absent]
  /\ inflight = {}
  /\ begun = [calls |-> 0, saves |-> 0, deletions |-> 0]
  /\ posted = [type |-> "none"]
  /\ lastLoad = [n |-> 0, how |-> "none", threw |-> FALSE]

\* the call with number id, while it waits
CallsOf(id) == {u \in inflight : u.id = id}

\* a call of #selectFile or #updateData that was just made
NewCall(origin, force) ==
  [id |-> begun.calls + 1, origin |-> origin, force |-> force, pc |-> "showing",
   cacheKey |-> NoFile, target |-> NoFile, lastChanged |-> 0]

\* #updateData up to the first await of #loadThemeContent: cacheKey is read
\* and this.#selectedFile.exists is asked for
beginUpdate(u) ==
  [u EXCEPT !.pc = "exists", !.cacheKey = selectedFile, !.target = selectedFile]

\* this.#current of #updateData for the file selected when it posts, or the
\* error message of the outer catch when this.#selectedFile is null by then
messageFor(sel, colorsMap, resultsMap, stamps) ==
  IF sel = NoFile THEN [type |-> "error"]
  ELSE resultsMessage(colorsMap[sel], resultsMap[sel]) @@
       [path |-> sel,
        timestamp |-> stamps[sel],
        userColorsForFile |-> IF colorsMap[sel].has THEN colorsMap[sel].value ELSE <<>>]

\* timestamps.get(path) === lastChanged: what modified() returns compares by
\* value when it is a number and by identity when it is a Date
Identical(cached, lastChanged) ==
  IF cached.has /\ cached.value = lastChanged THEN BOOLEAN ELSE {FALSE}

\* #loadThemeContent has ended (how: loaded, cached or failed; threw: its
\* catch block raised) with the caches colorsMap and stamps, and #updateData
\* runs to its end without yielding: a forced update clears the validations
\* of cacheKey, absent validations are computed from the colors cached for
\* cacheKey, and the message is built for the file selected now.  A call of
\* #selectFile then sets the watcher up.
Complete(u, how, threw, colorsMap, stamps) ==
  LET key == u.cacheKey
      cleared == IF u.force /\ ~threw
                 THEN [validationsMap EXCEPT ![key] = Absent] ELSE validationsMap
      skipped == threw \/ cleared[key].has
      returns == ~skipped /\ ~colorsMap[key].has
  IN /\ inflight' = inflight \ {u}
     /\ userColorsMap' = colorsMap
     /\ timestamps' = stamps
     /\ lastLoad' = [n |-> lastLoad.n + 1, how |-> how, threw |-> threw]
     /\ watcher' = IF u.origin = "select" /\ selectedFile # NoFile
                   THEN selectedFile ELSE watcher
     /\ IF skipped \/ returns
        THEN /\ validationsMap' = cleared
             /\ UNCHANGED lastIndex
        ELSE \E r \in {validate(schema, colorsMap[key].value, lastIndex)} :
               /\ validationsMap' = [cleared EXCEPT ![key] = validationsAfter(r)]
               /\ lastIndex' = r.lastIndex
     /\ posted' = IF returns THEN posted
                  ELSE messageFor(selectedFile, colorsMap, validationsMap', stamps)
     /\ UNCHANGED <<rawDoc, instance, schema, refCache, userColors, outcome,
                    prevOutcome, checks, schemaAtBuild, candidate, verdict, runs,
                    panelVars, loaderVars, disk, selectedFile, begun>>

\* the catch block of #loadThemeContent: it logs this.#selectedFile.path,
\* which raises when the file was unselected meanwhile
Caught(u) ==
  Complete(u, "failed", selectedFile = NoFile, userColorsMap, timestamps)

\* the call goes on waiting, for the promise pc names
Await(u, pc, lastChanged) ==
  /\ inflight' = (inflight \ {u}) \cup
                    {[u EXCEPT !.pc = pc, !.target = selectedFile,
                               !.lastChanged = lastChanged]}
  /\ UNCHANGED <<coreVars, panelVars, loaderVars, disk, selectedFile, watcher,
                 userColorsMap, validationsMap, timestamps, begun, posted, lastLoad>>

\* #selectFile(resourceUri) up to await this.showWebview(): the watcher of
\* the previous file is disposed and the file is selected
SelectFile(p) ==
  /\ begun.calls < MaxUpdates
  /\ begun' = [begun EXCEPT !.calls = @ + 1]
  /\ selectedFile' = p
  /\ watcher' = NoFile
  /\ inflight' = inflight \cup {NewCall("select", FALSE)}
  /\ UNCHANGED <<coreVars, panelVars, loaderVars, disk, userColorsMap,
                 validationsMap, timestamps, posted, lastLoad>>

\* #selectFile after showWebview: await this.#updateData()
Shown(id) ==
  /\ \E u \in CallsOf(id) :
       /\ u.pc = "showing"
       /\ inflight' = IF selectedFile = NoFile THEN inflight \ {u}
                      ELSE (inflight \ {u}) \cup {beginUpdate(u)}
  /\ UNCHANGED <<coreVars, panelVars, loaderVars, disk, selectedFile, watcher,
                 userColorsMap, validationsMap, timestamps, begun, posted, lastLoad>>

\* refresh() and a fired debounce timer call #updateData({force: true}), the
\* webview's requestData calls #updateData()
StartUpdate(force) ==
  /\ begun.calls < MaxUpdates
  /\ selectedFile # NoFile
  /\ begun' = [begun EXCEPT !.calls = @ + 1]
  /\ inflight' = inflight \cup {beginUpdate(NewCall("command", force))}
  /\ UNCHANGED <<coreVars, panelVars, loaderVars, disk, selectedFile, watcher,
                 userColorsMap, validationsMap, timestamps, posted, lastLoad>>

\* await this.#selectedFile.exists resolves: a missing file ends the load,
\* else this.#selectedFile.modified() is asked for
Exists(id) ==
  \E u \in CallsOf(id) :
    /\ u.pc = "exists"
    /\ IF ~disk[u.target].exists
       THEN Complete(u, "failed", FALSE, userColorsMap, timestamps)
       ELSE IF selectedFile = NoFile THEN Caught(u)
       ELSE Await(u, "modified", 0)

\* await this.#selectedFile.modified() resolves: an unforced load ends when
\* the cached timestamp is the file's, else loadData() is asked for
Modified(id) ==
  \E u \in CallsOf(id) :
    /\ u.pc = "modified"
    /\ IF ~disk[u.target].exists \/ selectedFile = NoFile THEN Caught(u)
       ELSE \E same \in Identical(timestamps[selectedFile], disk[u.target].mtime) :
              IF ~u.force /\ userColorsMap[selectedFile].has /\ same
              THEN Complete(u, "cached", FALSE, userColorsMap, timestamps)
              ELSE Await(u, "loadData", disk[u.target].mtime)

\* await this.#selectedFile.loadData() resolves: a file without content or
\* without a colors key raises into the catch block, else the colors and
\* the timestamp are cached under the path selected now
LoadData(id) ==
  \E u \in CallsOf(id) :
    /\ u.pc = "loadData"
    /\ IF \/ ~disk[u.target].exists
          \/ ~disk[u.target].data.readable
          \/ selectedFile = NoFile
       THEN Caught(u)
       ELSE Complete(u, "loaded", FALSE,
                     [userColorsMap EXCEPT
                        ![selectedFile] = Held(disk[u.target].data.colors)],
                     [timestamps EXCEPT ![selectedFile] = Held(u.lastChanged)])

\* a theme file is saved with another content
SaveFile(p, f) ==
  /\ begun.saves < MaxSaves
  /\ ~(disk[p].exists /\ disk[p].data = f)
  /\ begun' = [begun EXCEPT !.saves = @ + 1]
  /\ disk' = [disk EXCEPT ![p] = OnDisk(f, begun.saves + 1)]
  /\ UNCHANGED <<coreVars, panelVars, loaderVars, selectedFile, watcher,
                 userColorsMap, validationsMap, timestamps, inflight, posted, lastLoad>>

\* a theme file is deleted; the watcher of the selected file reports it:
\* onDidDelete sets this.#selectedFile to null, and its forced #updateData
\* finds no selected file
DeleteFile(p) ==
  /\ begun.deletions < MaxDeletions
  /\ disk[p].exists
  /\ begun' = [begun EXCEPT !.deletions = @ + 1]
  /\ disk' = [disk EXCEPT ![p].exists = FALSE]
  /\ selectedFile' = IF watcher = p THEN NoFile ELSE selectedFile
  /\ UNCHANGED <<coreVars, panelVars, loaderVars, watcher, userColorsMap,
                 validationsMap, timestamps, inflight, posted, lastLoad>>

NextFiles ==
  \/ \E p \in Paths : SelectFile(p)
  \/ \E id \in 1 .. MaxUpdates : Shown(id)
  \/ \E force \in BOOLEAN : StartUpdate(force)
  \/ \E id \in 1 .. MaxUpdates : Exists(id)
  \/ \E id \in 1 .. MaxUpdates : Modified(id)
  \/ \E id \in 1 .. MaxUpdates : LoadData(id)
  \/ \E p \in Paths, f \in ThemeFiles : SaveFile(p, f)
  \/ \E p \in Paths : DeleteFile(p)

SpecFiles == InitFiles /\ [][NextFiles]_vars

----------------------------------------------------------------------------
(* Claims about the panel's files, checked under SpecFiles *)

\* C24: every results message posted by #updateData carries
\* validationResults equal to the validation of the user colours cached for
\* the selected file when it was posted, the colours its propertyCount
\* counts; after forced and unforced updates, also when a file is selected
\* again after its content changed while another file was selected.
C24_ResultsAreOfTheCachedColours ==
  posted.type = "validationResults" =>
    /\ validate(schema, posted.userColorsForFile, 0).kind = "returned"
    /\ posted.validationResults =
         Held(validate(schema, posted.userColorsForFile, 0).results)

\* a call of #loadThemeContent ends in this step without having loaded the
\* file: it is missing, unreadable, empty, unparsable or has no colors key
LoadFails == lastLoad'.n # lastLoad.n /\ lastLoad'.how = "failed"

\* C28: when loading the selected theme file fails, the cached user colours
\* and the cached timestamp are left as they were and no exception leaves
\* #loadThemeContent into #updateData.
C28_FailedLoadIsContained ==
  [][LoadFails =>
       /\ userColorsMap' = userColorsMap
       /\ timestamps' = timestamps
       /\ ~lastLoad'.threw]_vars

----------------------------------------------------------------------------
(* Further claims about the resolution, checked under SpecResolve *)

\* C22: after a successful resolution no descriptor of the schema map and
\* no oneOf alternative of a descriptor still carries a $ref field, also
\* when the referenced definition itself contains a $ref field.
C22_NoRefLeft ==
  instance = "ok" =>
    \A k \in DOMAIN schema :
      /\ ~Has(schema[k], "$ref")
      /\ \A a \in 1 .. Len(DescriptorAlternatives(k)) :
           ~Has(DescriptorAlternatives(k)[a], "$ref")

\* C29: when a property node and the definition it references both define
\* a field, the resolved descriptor holds the definition's value for it (the
\* definition overrides the node's own fields), and so does a oneOf
\* alternative for the fields it shares with the definition it references.
C29_DefinitionOverridesNode ==
  instance = "ok" =>
    \A i \in 1 .. Len(rawDoc.properties) :
      LET node == rawDoc.properties[i].value
          desc == schema[rawDoc.properties[i].key]
          src == SourceAlternatives(i)
      IN /\ UsesRef(node) =>
              \A f \in DOMAIN node \cap DOMAIN Definition(node["$ref"]) :
                HoldsField(i, Definition(node["$ref"]), f)
         /\ \A a \in 1 .. Len(src) :
              UsesRef(src[a]) =>
                /\ Has(desc, "oneOf")
                /\ Len(desc.oneOf) = Len(src)
                /\ \A f \in DOMAIN src[a] \cap DOMAIN Definition(src[a]["$ref"]) :
                     /\ Has(desc.oneOf[a], f)
                     /\ desc.oneOf[a][f] = Definition(src[a]["$ref"])[f]

\* the (category, definitionName) pair a reference text names
Pair(ref) == <<ref[4], ref[6]>>

\* how often the list of alternatives that property i works on is gone
\* through: once for a list of the node's own, once per property that
\* merged the definition for a list that a definition declares
Passes(i) ==
  LET node == rawDoc.properties[i].value IN
    IF UsesRef(node) /\ Has(Definition(node["$ref"]), "oneOf")
    THEN Cardinality({j \in 1 .. Len(rawDoc.properties) :
                        /\ UsesRef(rawDoc.properties[j].value)
                        /\ rawDoc.properties[j].value["$ref"][6] = node["$ref"][6]})
    ELSE 1

\* the pairs resolved for an alternative that carries ref when its list is
\* gone through n times: each pass resolves the $ref the pass before left
RECURSIVE Chain(_, _)
Chain(ref, n) ==
  IF n = 0 THEN {}
  ELSE {Pair(ref)} \cup
       (IF UsesRef(Definition(ref)) THEN Chain(Definition(ref)["$ref"], n - 1) ELSE {})

\* the pairs the resolution of the document resolved
ResolvedPairs ==
  {Pair(rawDoc.properties[i].value["$ref"]) :
     i \in {j \in 1 .. Len(rawDoc.properties) : UsesRef(rawDoc.properties[j].value)}}
  \cup
  UNION { UNION { Chain(SourceAlternatives(i)[a]["$ref"], Passes(i)) :
                    a \in {b \in 1 .. Len(SourceAlternatives(i)) :
                             UsesRef(SourceAlternatives(i)[b])} } :
          i \in 1 .. Len(rawDoc.properties) }

\* C30: the reference cache is write-once.  After the resolutions of a
\* document the entry of a (category, definitionName) pair is the
\* definition recorded when the pair was resolved first, and the cache has
\* an entry for exactly the pairs that were resolved.
C30_CacheWriteOnce ==
  instance = "ok" =>
    /\ DOMAIN refCache = ResolvedPairs
    /\ \A key \in DOMAIN refCache :
         refCache[key] =
           IF key[2] \in DOMAIN rawDoc.defs
           THEN loadDef(key[2], rawDoc.defs[key[2]])
           ELSE EmptyObject

\* two properties resolved the same pair, and the references of the
\* alternatives gave the cache further entries
C30_Witness ==
  /\ instance = "ok"
  /\ Len(rawDoc.properties) = 2
  /\ UsesRef(rawDoc.properties[1].value)
  /\ rawDoc.properties[1].value = rawDoc.properties[2].value
  /\ Cardinality(DOMAIN refCache) >= 3

----------------------------------------------------------------------------
(* Further claims about Validator.validate, checked under Spec *)

\* an alternative with a pattern and an empty patternErrorMessage
EmptyMessage(option) ==
  /\ TruthyStr(option, "pattern")
  /\ Has(option, "patternErrorMessage")
  /\ option.patternErrorMessage = ""

\* alternative a of key is the first one the string s can fail on: its
\* pattern compiles and rejects s, and every alternative ahead of it that
\* constrains the value accepts s
FirstRejecting(key, a, s) ==
  /\ RegExpCompiles(AlternativesOf(key)[a].pattern)
  /\ ~RegExpTest(AlternativesOf(key)[a].pattern, s)
  /\ \A b \in 1 .. a - 1 :
       Constrains(AlternativesOf(key)[b]) => PatternMatches(AlternativesOf(key)[b], s)

\* C23: when a oneOf alternative has a pattern and an empty
\* patternErrorMessage and the value, a well-formed colour, does not match
\* the pattern, the property check fails with the generic message "This
\* color must be transparent to avoid obscuring content."
C23_EmptyMessageFallsBack ==
  \A c \in 1 .. Len(checks) :
    LET key == checks[c].key
        v == checks[c].value
        res == checks[c].result
    IN (/\ WellFormed(v)
        /\ \E a \in 1 .. Len(AlternativesOf(key)) :
             /\ EmptyMessage(AlternativesOf(key)[a])
             /\ FirstRejecting(key, a, v.s)) =>
         /\ ~res.threw
         /\ ~res.isValid
         /\ res.error = "This color must be transparent to avoid obscuring content."

\* C26: for every resolved descriptor without a deprecationMessage whose
\* sample the resolver defaulted, validating that sample against the same
\* descriptor yields status "valid": every value that copyMissingProperties
\* scaffolds from a defaulted sample passes validation.
C26_DefaultedSampleIsValid ==
  Called =>
    \A i \in 1 .. Len(userColors) :
      LET key == userColors[i].key
          v == userColors[i].value
      IN (/\ key \in DOMAIN schema
          /\ ~Deprecated(key)
          /\ \E n \in 1 .. Len(rawDoc.properties) :
               /\ rawDoc.properties[n].key = key
               /\ ~Has(SourceFields(n), "sample")
          /\ v = Str(schema[key].sample)) =>
           /\ Returned
           /\ \E j \in 1 .. Len(outcome.results) :
                /\ outcome.results[j].property = key
                /\ outcome.results[j].status = "valid"

\* C27: status "warn" is given only to a key that is in the schema map
\* and whose descriptor has a non-empty deprecationMessage; a key the
\* schema map lacks and a key that is not deprecated never get "warn", and
\* every entry has one of the three statuses.
C27_WarnOnlyWhenDeprecated ==
  Returned =>
    \A j \in 1 .. Len(outcome.results) :
      LET e == outcome.results[j] IN
        /\ e.status \in {"valid", "warn", "invalid"}
        /\ e.status = "warn" =>
             /\ e.property \in DOMAIN schema
             /\ Has(schema[e.property], "deprecationMessage")
             /\ schema[e.property].deprecationMessage # ""

\* a deprecated key was reported with "warn" beside a key the schema map
\* lacks, which was reported "invalid"
C27_Witness ==
  /\ Returned
  /\ \E j \in 1 .. Len(outcome.results) : outcome.results[j].status = "warn"
  /\ \E j \in 1 .. Len(outcome.results) :
       /\ outcome.results[j].property \notin DOMAIN schema
       /\ outcome.results[j].status = "invalid"

====
